---- MODULE Spec2Model ----
(***************************************************************************)
(* EntityRefLink / PeekAheadPopover                                        *)
(* (plugins/catalog-react/src/components/EntityRefLink/EntityRefLink.tsx). *)
(*                                                                         *)
(* One mounted EntityRefLink with its PeekAheadPopover child.  A string is *)
(* a sequence of one-character strings, so that lower-casing, parsing and  *)
(* concatenation are computed.  An optional value (a possibly undefined    *)
(* field) is a sequence of length at most one: None is undefined, Some(x)  *)
(* is the defined value x.                                                 *)
(*                                                                         *)
(* React's scheduling is modelled as follows.  A render is part of the     *)
(* action that causes it (an event handler's state update, a parent        *)
(* re-render, a settled promise).  The passive effect of lines 108-112 is  *)
(* its own step, RunEffect, taken before any later render (React flushes   *)
(* pending passive effects before it renders again).  A promise that       *)
(* settles without I/O (the branch of line 105) settles in a microtask,    *)
(* before any other event is handled.                                      *)
(*                                                                         *)
(* useAsyncFn is the hook of react-use: a call takes the next call id,     *)
(* sets loading unless the memoised callback closed over loading = true,   *)
(* and a settled promise is stored only while mounted and only for the     *)
(* latest call id.  State updates made outside an event handler render at  *)
(* once (React 17, the version the plugin is built against).  The entities *)
(* the catalog returns are well-formed: every one carries a spec.          *)
(***************************************************************************)
EXTENDS Integers, Sequences, FiniteSets, TLC

\* ------------------------------------------------------------------ bounds
MaxLoads == 3
MaxOpens == 2
MaxTags == 6

\* ----------------------------------------------------------------- strings
None == << >>
Some(x) == << x >>

Lowers == << "a","b","c","d","e","f","g","h","i","j","k","l","m",
             "n","o","p","q","r","s","t","u","v","w","x","y","z" >>
Uppers == << "A","B","C","D","E","F","G","H","I","J","K","L","M",
             "N","O","P","Q","R","S","T","U","V","W","X","Y","Z" >>

ToLowerChar(c) ==
    IF \E i \in DOMAIN Uppers : Uppers[i] = c
    THEN Lowers[CHOOSE i \in DOMAIN Uppers : Uppers[i] = c]
    ELSE c

ToUpperChar(c) ==
    IF \E i \in DOMAIN Lowers : Lowers[i] = c
    THEN Uppers[CHOOSE i \in DOMAIN Lowers : Lowers[i] = c]
    ELSE c

\* String.prototype.toLocaleLowerCase('en-US')
toLocaleLowerCase(s) == [i \in 1..Len(s) |-> ToLowerChar(s[i])]

\* String.prototype.toLocaleUpperCase('en-US')
toLocaleUpperCase(s) == [i \in 1..Len(s) |-> ToUpperChar(s[i])]

\* Array.prototype.slice(0, end)
slice(s, end) == [i \in 1..(IF Len(s) < end THEN Len(s) ELSE end) |-> s[i]]

\* ------------------------------------------------------- program constants
maxTagChips == 4
DEFAULT_NAMESPACE == << "d","e","f","a","u","l","t" >>

\* --------------------------------------------------------------- the inputs
RefKinds == { << "A","p","i" >> }
RefNamespaces == { << "D","e","v" >>, << >> }
RefNames == { << "m","i","s","s","i","n","g" >>, << "A","b" >> }

\* `${kind}:${namespace}/${name}` and `${kind}:${name}`
RefString(k, ns, n) == k \o << ":" >> \o ns \o << "/" >> \o n
RefStringNoNamespace(k, n) == k \o << ":" >> \o n

MalformedString == << "A","p","i",":" >>

StringInputs ==
    { [shape |-> "string", str |-> RefString(k, ns, n)] :
        k \in RefKinds, ns \in RefNamespaces \ { << >> }, n \in RefNames }
    \cup { [shape |-> "string", str |-> RefStringNoNamespace(k, n)] :
        k \in RefKinds, n \in RefNames }
    \cup { [shape |-> "string", str |-> MalformedString] }

OptNamespaces == { None } \cup { Some(ns) : ns \in RefNamespaces }

CompoundInputs ==
    { [shape |-> "compound", kind |-> k, namespace |-> ns, name |-> n] :
        k \in RefKinds, ns \in OptNamespaces, n \in RefNames }

EntityInputs ==
    { [shape |-> "entity", kind |-> k,
       metadata |-> [namespace |-> ns, name |-> n]] :
        k \in RefKinds, ns \in OptNamespaces, n \in RefNames }

Inputs == StringInputs \cup CompoundInputs \cup EntityInputs

\* ------------------------------------------------- the entities looked up
EntityKinds == { << "U","s","e","r" >>, << "g","r","o","u","p" >>,
                 << "R","e","s","o","u","r","c","e" >> }
Emails == { << "a","@","b",".","c","o","m" >>, << >> }
TagAt(i) == << "tag", i >>
TagLists == { [i \in 1..n |-> TagAt(i)] : n \in 0..MaxTags }

CatalogEntities ==
    { [kind |-> k,
       metadata |-> [tags |-> t],
       spec |-> [profile |-> [email |-> e]]] :
        k \in EntityKinds,
        t \in { None } \cup { Some(l) : l \in TagLists },
        e \in { None } \cup { Some(m) : m \in Emails } }

TransportError == << "t","i","m","e","o","u","t" >>

\* ------------------------------------------------------ external collaborators
\* First position of character c in s, 0 when absent (String.prototype.indexOf + 1).
IndexOf(s, c) ==
    IF \E i \in 1..Len(s) : s[i] = c
    THEN CHOOSE i \in 1..Len(s) : s[i] = c /\ \A j \in 1..(i - 1) : s[j] # c
    ELSE 0

\* parseEntityRef(ref) of @backstage/catalog-model, called without a context:
\* the grammar [kind:][namespace/]name.  ok = FALSE stands for the thrown
\* parse error (an empty part, or no kind and no default kind).
parseEntityRef(str) ==
    LET slashI == IndexOf(str, "/")
        colon0 == IndexOf(str, ":")
        colonI == IF slashI # 0 /\ slashI < colon0 THEN 0 ELSE colon0
        kind == IF colonI = 0 THEN None ELSE Some(SubSeq(str, 1, colonI - 1))
        namespace == IF slashI = 0 THEN None
                     ELSE Some(SubSeq(str, colonI + 1, slashI - 1))
        start == IF colonI > slashI THEN colonI + 1 ELSE slashI + 1
        name == SubSeq(str, start, Len(str))
    IN  IF kind = None \/ kind = Some(<< >>) \/ namespace = Some(<< >>)
           \/ name = << >>
        THEN [ok |-> FALSE, kind |-> << >>, namespace |-> None, name |-> << >>]
        ELSE [ok |-> TRUE, kind |-> kind[1], namespace |-> namespace,
              name |-> name]

\* isUserEntity / isGroupEntity of @backstage/catalog-model: classification
\* by kind, compared case-insensitively.
isUserEntity(entity) ==
    toLocaleUpperCase(entity.kind) = << "U","S","E","R" >>
isGroupEntity(entity) ==
    toLocaleUpperCase(entity.kind) = << "G","R","O","U","P" >>

\* entityRoute(params): the route builder of entityRouteRef.  The target is
\* a function of the three parameters and of nothing else.
entityRoute(params) ==
    [route |-> "entity", kind |-> params.kind,
     namespace |-> params.namespace, name |-> params.name]

\* humanizeEntityRef(ref, {defaultKind}): the label of the link.
humanizeEntityRef(ref) ==
    [label |-> "humanized", kind |-> ref.kind,
     namespace |-> ref.namespace, name |-> ref.name]

\* ------------------------------------------------------ Reference Normalizer
\* Lines 207-220: the three input shapes, told apart by typeof and by the
\* presence of a metadata field.
ExtractRef(input) ==
    IF input.shape = "string"
    THEN parseEntityRef(input.str)
    ELSE IF input.shape = "entity"
    THEN [ok |-> TRUE, kind |-> input.kind,
          namespace |-> input.metadata.namespace,
          name |-> input.metadata.name]
    ELSE [ok |-> TRUE, kind |-> input.kind, namespace |-> input.namespace,
          name |-> input.name]

\* NormalizeKind without the lower-casing of line 222.
NormalizeKindUnchanged(kind) == kind

\* Line 222: kind.toLocaleLowerCase('en-US')
NormalizeKind(kind) == toLocaleLowerCase(kind)

\* Line 223: namespace?.toLocaleLowerCase('en-US') ?? DEFAULT_NAMESPACE.
\* ?. yields undefined for an undefined namespace only, and ?? replaces
\* undefined only.
NormalizeNamespace(namespace) ==
    IF namespace = None THEN DEFAULT_NAMESPACE
    ELSE toLocaleLowerCase(namespace[1])

\* Lines 203-225: the triple { kind, namespace, name }.
Normalize(input) ==
    LET raw == ExtractRef(input)
    IN  [kind |-> NormalizeKind(raw.kind),
         namespace |-> NormalizeNamespace(raw.namespace),
         name |-> raw.name]

\* The render of EntityRefLink throws when the string does not parse.
Parses(input) == ExtractRef(input).ok

\* ------------------------------------------------------------------- state
VARIABLES
    props,             \* the entityRef prop handed to EntityRefLink
    entityRef,         \* the normalized triple handed to PeekAheadPopover
    isOpen,            \* popupState.isOpen
    opens,             \* how many times the popover was opened
    state,             \* the state of useAsyncFn: loading, value, error
    loadStateLoading,  \* state.loading as closed over by the current load
    lastCallId,        \* lastCallId.current of useAsyncFn: load() calls so far
    lookups,           \* the catalogApi.getEntityByRef calls, in order
    microtask,         \* the call whose promise settles without I/O, if any
    mounted,           \* the component is mounted
    effectPending,     \* the effect of lines 108-112 is scheduled
    uncaught,          \* the error that left the component, if any
    hasApi             \* apiHolder.get(catalogApiRef) is defined

vars == << props, entityRef, isOpen, opens, state, loadStateLoading,
           lastCallId, lookups, microtask, mounted, effectPending,
           uncaught, hasApi >>

\* ------------------------------------------------------------ useAsyncFn
\* useAsyncFn(fn, deps) of react-use, as used at lines 96-106.
\* initialState = { loading: false }
InitialState == [loading |-> FALSE, value |-> None, error |-> None]

\* if (!state.loading) set(prev => ({ ...prev, loading: true }))
StartLoading(st, closedOverLoading) ==
    IF closedOverLoading THEN st ELSE [st EXCEPT !.loading = TRUE]

\* value => set({ value, loading: false })
OnFulfilled(value) == [loading |-> FALSE, value |-> value, error |-> None]

\* OnRejected with `throw error` in place of `return error`.
OnRejectedRethrows(error) ==
    [state |-> [loading |-> FALSE, value |-> None, error |-> Some(error)],
     rethrown |-> TRUE]

\* error => { set({ error, loading: false }); return error }: the error is
\* stored and returned, so the promise of load() fulfils and nothing is
\* rethrown.
OnRejected(error) ==
    [state |-> [loading |-> FALSE, value |-> None, error |-> Some(error)],
     rethrown |-> FALSE]

\* isMounted() && callId === lastCallId.current
Accepts(callId) == mounted /\ callId = lastCallId

\* ------------------------------------------------------------------ load
Fulfilled(value) == [tag |-> "fulfilled", value |-> value, error |-> << >>]
Rejected(error) == [tag |-> "rejected", value |-> None, error |-> error]

\* Line 101: `${entityRef.name} was not found`
NotFoundMessage(ref) ==
    ref.name \o << " ","w","a","s"," ","n","o","t"," ","f","o","u","n","d" >>

\* LoadWithApi without the check of lines 100-102.
LoadWithApiSilentEmpty(answer, ref) ==
    IF answer.tag = "throw" THEN Rejected(answer.error)
    ELSE Fulfilled(answer.entity)

\* Lines 99-103: what the async function settles to once getEntityByRef has
\* answered: a thrown error rejects, an empty answer throws the not-found
\* error, an entity is returned.
LoadWithApi(answer, ref) ==
    IF answer.tag = "throw" THEN Rejected(answer.error)
    ELSE IF answer.entity = None THEN Rejected(NotFoundMessage(ref))
    ELSE Fulfilled(answer.entity)

\* Line 105: without a catalog API the function returns undefined.
LoadWithoutApi == Fulfilled(None)

\* The answers of getEntityByRef.
Answers ==
    { [tag |-> "return", entity |-> Some(e), error |-> << >>] :
        e \in CatalogEntities }
    \cup { [tag |-> "return", entity |-> None, error |-> << >>] }
    \cup { [tag |-> "throw", entity |-> None, error |-> TransportError] }

\* ---------------------------------------------------------------- effect
\* EffectGuard without !loading, without popupState.isOpen, without !error.
EffectGuardIgnoringLoading ==
    isOpen /\ state.value = None /\ state.error = None
EffectGuardIgnoringOpen ==
    state.value = None /\ state.error = None /\ ~state.loading
EffectGuardIgnoringError ==
    isOpen /\ state.value = None /\ ~state.loading

\* Line 109: popupState.isOpen && !entity && !error && !loading
EffectGuard ==
    isOpen /\ state.value = None /\ state.error = None /\ ~state.loading

\* The promise of a load() call has not settled yet.
InFlight ==
    microtask # None \/ \E i \in 1..Len(lookups) : lookups[i].outcome = "pending"

\* Nothing runs between a settlement without I/O and the call that made it,
\* and a scheduled effect runs before the next render.
Quiet == mounted /\ ~effectPending /\ microtask = None

\* ------------------------------------------------------------------- Init
Init ==
    /\ props \in { p \in Inputs : Parses(p) }
    /\ entityRef = Normalize(props)
    /\ isOpen = FALSE
    /\ opens = 0
    /\ state = InitialState
    /\ loadStateLoading = FALSE
    /\ lastCallId = 0
    /\ lookups = << >>
    /\ microtask = None
    /\ mounted = TRUE
    /\ effectPending = TRUE
    /\ uncaught = "none"
    /\ hasApi \in BOOLEAN

\* ---------------------------------------------------------------- actions
\* A render of EntityRefLink with prop p (lines 194-249): it normalizes p,
\* hands a fresh { kind, namespace, name } object to PeekAheadPopover, whose
\* useAsyncFn makes a new load for it; the effect, which depends on load, is
\* scheduled.  A string that does not parse throws out of the render, and
\* the tree is unmounted.
RenderLink(p) ==
    IF Parses(p)
    THEN /\ props' = p
         /\ entityRef' = Normalize(p)
         /\ loadStateLoading' = state.loading
         /\ effectPending' = TRUE
         /\ UNCHANGED << mounted, uncaught >>
    ELSE /\ props' = p
         /\ mounted' = FALSE
         /\ uncaught' = "ParseError"
         /\ effectPending' = FALSE
         /\ UNCHANGED << entityRef, loadStateLoading >>

\* bindHover: the pointer enters the link and the popover opens.
Hover ==
    /\ Quiet /\ ~isOpen /\ opens < MaxOpens
    /\ isOpen' = TRUE
    /\ opens' = opens + 1
    /\ RenderLink(props)
    /\ UNCHANGED << state, lastCallId, lookups, microtask, hasApi >>

\* bindHover / bindPopover: the pointer leaves and the popover closes.
Leave ==
    /\ Quiet /\ isOpen
    /\ isOpen' = FALSE
    /\ RenderLink(props)
    /\ UNCHANGED << opens, state, lastCallId, lookups, microtask, hasApi >>

\* The parent renders EntityRefLink again, with the same or another prop.
Rerender(p) ==
    /\ Quiet
    /\ RenderLink(p)
    /\ UNCHANGED << isOpen, opens, state, lastCallId, lookups, microtask,
                    hasApi >>

\* load() (lines 96-106 through useAsyncFn): takes the next call id, sets the
\* loading flag, and either calls getEntityByRef or returns undefined.
Load ==
    /\ lastCallId' = lastCallId + 1
    /\ state' = StartLoading(state, loadStateLoading)
    /\ IF hasApi
       THEN /\ lookups' = Append(lookups, [callId |-> lastCallId + 1,
                                           ref |-> entityRef,
                                           outcome |-> "pending"])
            /\ UNCHANGED microtask
       ELSE /\ microtask' = Some(lastCallId + 1)
            /\ UNCHANGED lookups

\* The effect of lines 108-112.  The state update of load() renders
\* PeekAheadPopover again, and the effect is scheduled again when one of its
\* dependencies changed.
RunEffect ==
    /\ mounted /\ effectPending
    /\ IF EffectGuard
       THEN /\ lastCallId < MaxLoads
            /\ Load
            /\ effectPending' = (state'.loading # state.loading)
       ELSE /\ effectPending' = FALSE
            /\ UNCHANGED << state, lastCallId, lookups, microtask >>
    /\ UNCHANGED << props, entityRef, isOpen, opens, loadStateLoading,
                    mounted, uncaught, hasApi >>

\* The promise of call callId settles to result: useAsyncFn stores it when
\* the component is mounted and the call is the latest one.
Settle(callId, result) ==
    /\ state' = IF ~Accepts(callId) THEN state
                ELSE IF result.tag = "fulfilled"
                THEN OnFulfilled(result.value)
                ELSE OnRejected(result.error).state
    /\ uncaught' = IF result.tag = "rejected"
                      /\ OnRejected(result.error).rethrown
                   THEN "FetchError" ELSE uncaught
    /\ effectPending' = (mounted /\ state' # state)
    /\ UNCHANGED << props, entityRef, isOpen, opens, loadStateLoading,
                    lastCallId, mounted, hasApi >>

\* getEntityByRef answers lookup i.
Answer(i, answer) ==
    /\ ~effectPending /\ microtask = None
    /\ lookups[i].outcome = "pending"
    /\ lookups' = [lookups EXCEPT ![i].outcome =
                      IF answer.tag = "throw" THEN "throw"
                      ELSE IF answer.entity = None THEN "empty"
                      ELSE "entity"]
    /\ Settle(lookups[i].callId, LoadWithApi(answer, lookups[i].ref))
    /\ UNCHANGED microtask

\* The async function returned undefined (no catalog API).
ReturnUndefined ==
    /\ ~effectPending /\ microtask # None
    /\ microtask' = None
    /\ Settle(microtask[1], LoadWithoutApi)
    /\ UNCHANGED lookups

Unmount ==
    /\ Quiet
    /\ mounted' = FALSE
    /\ UNCHANGED << props, entityRef, isOpen, opens, state, loadStateLoading,
                    lastCallId, lookups, microtask, effectPending,
                    uncaught, hasApi >>

Next ==
    \/ Hover
    \/ Leave
    \/ \E p \in Inputs : Rerender(p)
    \/ RunEffect
    \/ \E i \in 1..Len(lookups), a \in Answers : Answer(i, a)
    \/ ReturnUndefined
    \/ Unmount

Spec == Init /\ [][Next]_vars

\* ------------------------------------------------------------- the render
\* What the components return while mounted.  The card of lines 129-185 is
\* the content of the popover, which the popover displays while it is open.

\* Lines 233-241: the link, with its target and its default text.
LinkView ==
    IF mounted
    THEN Some([to |-> entityRoute(entityRef),
               text |-> humanizeEntityRef(entityRef)])
    ELSE None

\* Line 130: {loading && <Progress />}
ProgressShown == mounted /\ state.loading

\* Lines 132-135: the headline.
Headline == [namespace |-> entityRef.namespace, name |-> entityRef.name]

\* Line 136: {error && <Alert severity="warning">{error.message}</Alert>}
AlertText == IF mounted THEN state.error ELSE None

\* Line 137: entity ? <details> : <skeleton>
BodyShown ==
    IF ~mounted THEN "none"
    ELSE IF state.value # None THEN "entity" ELSE "skeleton"

\* TagChips with slice(0, maxTagChips + 1).
TagChipsOneMore(entity) ==
    slice(IF entity.metadata.tags = None THEN << >>
          ELSE entity.metadata.tags[1], maxTagChips + 1)

\* Line 145: (entity.metadata.tags || []).slice(0, maxTagChips)
TagChips(entity) ==
    slice(IF entity.metadata.tags = None THEN << >>
          ELSE entity.metadata.tags[1], maxTagChips)

\* Lines 148-153: tags?.length && tags?.length > maxTagChips && <chip>.
\* The value of the expression: undefined without a tag list, the number 0
\* for an empty list (which React renders as the text "0"), false up to the
\* cap, the "..." chip above it.
OverflowExpr(entity) ==
    IF entity.metadata.tags = None THEN "undefined"
    ELSE IF Len(entity.metadata.tags[1]) = 0 THEN "0"
    ELSE IF Len(entity.metadata.tags[1]) > maxTagChips THEN "chip"
    ELSE "false"

\* MailAction without the isUserEntity / isGroupEntity test of line 167.
MailActionAnyKind(value) ==
    IF value # None
       /\ value[1].spec.profile.email # None
       /\ value[1].spec.profile.email[1] # << >>
    THEN Some(<< "m","a","i","l","t","o",":" >>
              \o value[1].spec.profile.email[1])
    ELSE None

\* Lines 166-178: the mail button, as the href it carries.
MailAction(value) ==
    IF value # None
       /\ (isUserEntity(value[1]) \/ isGroupEntity(value[1]))
       /\ value[1].spec.profile.email # None
       /\ value[1].spec.profile.email[1] # << >>
    THEN Some(<< "m","a","i","l","t","o",":" >>
              \o value[1].spec.profile.email[1])
    ELSE None

\* Lines 179-183: the show-details action.
DetailsAction ==
    IF mounted THEN Some([to |-> entityRoute(entityRef)]) ELSE None

\* Lines 145-153 and 166-178 for the current state.
ChipsShown ==
    IF mounted /\ state.value # None THEN TagChips(state.value[1]) ELSE << >>
OverflowShown ==
    mounted /\ state.value # None /\ OverflowExpr(state.value[1]) = "chip"
MailShown == IF mounted THEN MailAction(state.value) ELSE None

\* ------------------------------------------------------------- properties
\* The four preview states, read off the state of useAsyncFn.
Idle(st) == ~st.loading /\ st.value = None /\ st.error = None
Loading(st) == st.loading
Loaded(st) == ~st.loading /\ st.value # None
Failed(st) == ~st.loading /\ st.error # None

\* l is s with every upper-case letter replaced by its lower-case letter.
IsLowerCaseOf(l, s) ==
    /\ Len(l) = Len(s)
    /\ \A i \in 1..Len(s) :
          \/ l[i] = s[i] /\ \A j \in DOMAIN Uppers : s[i] # Uppers[j]
          \/ \E j \in DOMAIN Uppers : s[i] = Uppers[j] /\ l[i] = Lowers[j]

\* The input p is the reference with kind k, optional namespace ns, name n.
Denotes(p, k, ns, n) ==
    IF p.shape = "string"
    THEN p.str = (IF ns = None THEN RefStringNoNamespace(k, n)
                  ELSE RefString(k, ns[1], n))
    ELSE IF p.shape = "entity"
    THEN p.kind = k /\ p.metadata.namespace = ns /\ p.metadata.name = n
    ELSE p.kind = k /\ p.namespace = ns /\ p.name = n

\* C1: one mounted PeekAheadPopover issues at most one getEntityByRef call,
\* whatever the sequence of opens, closes, re-renders and fetch completions.
C1_AtMostOneLookup == Len(lookups) <= 1

C1_Witness ==
    /\ Len(lookups) = 1 /\ lookups[1].outcome # "pending"
    /\ opens >= 2 /\ isOpen /\ mounted /\ ~effectPending
    /\ lookups[1].ref # entityRef

\* C2: load() is called if and only if the popover is open, the preview state
\* is Idle and no fetch is in flight: a call happens only from such a state
\* (so never before the first open and never during a fetch), an effect run
\* in such a state makes the call, and such a state always has the effect
\* scheduled.
C2_FetchBeginsIffOpenIdleNotLoading ==
    /\ [](mounted /\ isOpen /\ Idle(state) /\ ~InFlight => effectPending)
    /\ [][ /\ lastCallId' # lastCallId =>
                /\ lastCallId' = lastCallId + 1
                /\ isOpen /\ opens > 0 /\ Idle(state) /\ ~InFlight
                /\ Loading(state')
           /\ (mounted /\ effectPending /\ isOpen /\ Idle(state)) =>
                lastCallId' = lastCallId + 1
         ]_vars

C2_Witness ==
    lastCallId = 1 /\ isOpen /\ Loading(state) /\ InFlight /\ effectPending

\* C3: once the preview state is Loaded or Failed it keeps its value, and no
\* load() call and no lookup is made, whatever happens later.
C3_LoadedAndFailedAreStable ==
    [][ (Loaded(state) \/ Failed(state)) =>
            state' = state /\ lastCallId' = lastCallId /\ lookups' = lookups
      ]_vars

C3_Witness ==
    /\ Failed(state) /\ mounted /\ isOpen /\ opens >= 2 /\ ~effectPending
    /\ lookups[1].ref # entityRef

\* C4: the preview state only moves Idle -> Loading, Loading -> Loaded and
\* Loading -> Failed, never from Loading back to Idle, and load() is called
\* once per mount, whatever apiHolder.get(catalogApiRef) returns.
C4_NoWayBackToIdle ==
    /\ [](lastCallId <= 1)
    /\ [][ state' # state =>
              \/ Idle(state) /\ Loading(state')
              \/ Loading(state) /\ (Loaded(state') \/ Failed(state'))
         ]_vars

\* C5: when the latest lookup returned an empty result, the preview state is
\* Failed with the message "<name> was not found" for the name looked up,
\* as a thrown error ends in Failed with its own message; nothing is loaded
\* and no error left the component.
C5_EmptyResultFails ==
    \A i \in 1..Len(lookups) :
        (mounted /\ lookups[i].callId = lastCallId) =>
            /\ lookups[i].outcome = "empty" =>
                  /\ Failed(state) /\ state.value = None
                  /\ state.error = Some(lookups[i].ref.name \o
                        << " ","w","a","s"," ","n","o","t"," ",
                           "f","o","u","n","d" >>)
                  /\ AlertText = state.error
                  /\ BodyShown = "skeleton"
                  /\ uncaught = "none"
            /\ lookups[i].outcome = "throw" =>
                  /\ Failed(state) /\ state.value = None
                  /\ state.error = Some(TransportError)
                  /\ uncaught = "none"

C5_Witness ==
    /\ mounted /\ Len(lookups) = 1 /\ lookups[1].outcome = "empty"
    /\ lookups[1].ref.name = << "m","i","s","s","i","n","g" >>
    /\ state.error = Some(<< "m","i","s","s","i","n","g"," ","w","a","s"," ",
                             "n","o","t"," ","f","o","u","n","d" >>)

\* C6: for every input shape, an omitted (undefined) or empty ("") namespace
\* is normalized to "default".
C6_OmittedOrEmptyNamespaceDefaults ==
    uncaught = "none" =>
        \A k \in RefKinds, n \in RefNames, ns \in { None, Some(<< >>) } :
            Denotes(props, k, ns, n) =>
                entityRef.namespace = << "d","e","f","a","u","l","t" >>

\* C7: the normalized triple has the lower-cased kind, the lower-cased
\* namespace and the name unchanged; the link route, the link text and every
\* lookup use such a triple; a full entity record normalizes as the compound
\* reference with the same kind, namespace and name.
C7_LowerCasedKindAndNamespace ==
    uncaught = "none" =>
        /\ \A k \in RefKinds, n \in RefNames, ns \in OptNamespaces :
              Denotes(props, k, ns, n) =>
                  /\ IsLowerCaseOf(entityRef.kind, k)
                  /\ entityRef.name = n
                  /\ ns # None => IsLowerCaseOf(entityRef.namespace, ns[1])
        /\ props.shape = "entity" =>
              entityRef = Normalize([shape |-> "compound",
                                     kind |-> props.kind,
                                     namespace |-> props.metadata.namespace,
                                     name |-> props.metadata.name])
        /\ mounted =>
              /\ LinkView[1].to.kind = entityRef.kind
              /\ LinkView[1].to.namespace = entityRef.namespace
              /\ LinkView[1].to.name = entityRef.name
              /\ LinkView[1].text.kind = entityRef.kind
              /\ LinkView[1].text.namespace = entityRef.namespace
              /\ LinkView[1].text.name = entityRef.name
        /\ \A i \in 1..Len(lookups) :
              /\ IsLowerCaseOf(lookups[i].ref.kind, lookups[i].ref.kind)
              /\ IsLowerCaseOf(lookups[i].ref.namespace,
                               lookups[i].ref.namespace)

C7_Witness ==
    /\ props = [shape |-> "string",
                str |-> << "A","p","i",":","D","e","v","/","A","b" >>]
    /\ entityRef = [kind |-> << "a","p","i" >>,
                    namespace |-> << "d","e","v" >>,
                    name |-> << "A","b" >>]
    /\ Len(lookups) = 1 /\ lookups[1].ref = entityRef

C9_MailActionIffUserOrGroupWithEmail ==
    mounted =>
        LET e == state.value[1]
            wanted ==
                /\ Loaded(state)
                /\ \/ IsLowerCaseOf(<< "u","s","e","r" >>, e.kind)
                   \/ IsLowerCaseOf(<< "g","r","o","u","p" >>, e.kind)
                /\ e.spec.profile.email # None
                /\ Len(e.spec.profile.email[1]) > 0
        IN  /\ wanted => MailShown = Some(<< "m","a","i","l","t","o",":" >>
                                          \o e.spec.profile.email[1])
            /\ ~wanted => MailShown = None

C9_Witness ==
    /\ mounted /\ Loaded(state)
    /\ state.value[1].kind = << "U","s","e","r" >>
    /\ MailShown = Some(<< "m","a","i","l","t","o",":",
                           "a","@","b",".","c","o","m" >>)

\* C10: a loaded entity with n tags shows its first min(n, 4) tags as chips,
\* in order, and the overflow chip if and only if n > 4; without a tag list
\* there is no chip.
C10_TagChipsCappedAtFour ==
    (mounted /\ Loaded(state)) =>
        LET tags == state.value[1].metadata.tags
            n == IF tags = None THEN 0 ELSE Len(tags[1])
            shown == IF n < 4 THEN n ELSE 4
        IN  /\ Len(ChipsShown) = shown
            /\ \A i \in 1..shown : ChipsShown[i] = tags[1][i]
            /\ OverflowShown <=> n > 4

C10_Witness ==
    /\ mounted /\ Loaded(state)
    /\ state.value[1].metadata.tags # None
    /\ Len(state.value[1].metadata.tags[1]) = 6
    /\ Len(ChipsShown) = 4 /\ OverflowShown

====
